---- MODULE Spec2Model ----
(***************************************************************************)
(* Model of gauth (src/index.ts lines 1-201, compiled as src/index.js): a  *)
(* command-line program that resolves the IAP audience of a project and    *)
(* prints an OpenID Connect ID token for it.                               *)
(*                                                                         *)
(* One run of the program is one behaviour.  The state holds the inputs of *)
(* the run (command line, environment), the position of main's chain of    *)
(* awaits, the locals that survive an await, the process outputs (stdout,  *)
(* stderr, exit code) and the log of the upstream calls made.  Every       *)
(* upstream collaborator (yargs, Resource Manager, IAP, google-auth) is a  *)
(* black box: the action that resumes after an await draws the result of   *)
(* the call from a small set of possible results.                          *)
(*                                                                         *)
(* src/index.ts also holds, from line 203 on, an earlier variant of the    *)
(* program (compiled as src/unnamed/part_001): no flag parsing (args[0] is *)
(* the principal), no isManagedRuntime test, and a fetchEmail without a    *)
(* try block.  The model is of the first variant, the one the command-line *)
(* surface and the managed-runtime test belong to.                         *)
(***************************************************************************)
EXTENDS Naturals, Sequences, FiniteSets, TLC

\* ------------------------------------------------------------------ values

\* JavaScript's undefined, as a value distinct from every string used below.
Undefined == "<undefined>"

\* JavaScript truthiness of a string-or-undefined value: !!x
Truthy(x) == x # Undefined /\ x # ""

\* a || b on string-or-undefined values
Or(a, b) == IF Truthy(a) THEN a ELSE b

\* `${x}` in a template literal
TemplateStr(x) == IF x = Undefined THEN "undefined" ELSE x

\* s.split('/').pop() where the string s is held as its sequence of segments;
\* split never returns an empty array, so a string has at least one segment.
LastSegment(segs) == segs[Len(segs)]

\* A resource name that is undefined: the only "name" with no segment.
NoName == <<>>

\* ------------------------------------------------------------------ bounds

\* Longest list of IAP clients the listing returns.
MaxClients == 2

\* ------------------------------------------------------------ input spaces

AppEngineDisplayName == "IAP-App-Engine-app"

\* Command lines: the value given to --target-principal (Undefined: flag
\* absent, "": flag given with an empty value) and the other flags present.
PrincipalValues == {Undefined, "", "imp@sa"}
OtherFlags == {"--version", "--bogus"}
CommandLines == [targetPrincipal : PrincipalValues, flags : SUBSET OtherFlags]

\* process.env, restricted to the four variables the program reads.
Environments ==
  [PROJECT_ID : {Undefined, "", "p1"},
   GOOGLE_CLOUD_PROJECT : {Undefined, "p2"},
   GOOGLE_CLOUD_REGION : {Undefined, "us-east1"},
   GAE_SERVICE : {Undefined, "default"}]

\* project.name as returned by the project lookup, split at '/'.
ProjectNames == {NoName, <<"projects", "123">>, <<"projects", "">>}

\* IAP clients: display name and resource name (split at '/').
ClientNames == {NoName, <<"brands", "c1">>, <<"c2">>}
IapClients == [displayName : {AppEngineDisplayName, "other"}, name : ClientNames]
RECURSIVE SeqsUpTo(_, _)
SeqsUpTo(S, n) ==
  IF n = 0 THEN {<<>>}
  ELSE LET shorter == SeqsUpTo(S, n - 1)
       IN shorter \cup {Append(s, x) : s \in {t \in shorter : Len(t) = n - 1}, x \in S}
ClientLists == SeqsUpTo(IapClients, MaxClients)

Emails == {Undefined, "", "run@sa"}
\* The client auth.getClient() returns: a JWT client (with its email) or not.
SourceClients == [isJWT : BOOLEAN, email : {Undefined, "jwt@sa"}]
Tokens == {"tok1"}

\* --------------------------------------------------------------- the state

VARIABLES
  argv,            \* the command line of the run
  env,             \* process.env
  pc,              \* where main's chain of awaits stands
  targetPrincipal, \* main: argv.targetPrincipal
  projectId,       \* init: projectId
  projectNumber,   \* init: projectNumber
  clients,         \* init: clients
  targetAudience,  \* init: targetAudience
  sourceClient,    \* createIdTokenProvider: sourceClient
  credentials,     \* createIdTokenProvider: credentials.client_email
  userinfo,        \* fetchEmail: what the userinfo request gave
  provider,        \* main: provider
  fetchArgs,       \* the arguments main passed to provider.fetchIdToken
  error,           \* the value main's promise was rejected with
  exitCode,        \* process.exitCode, or the code the process exited with
  stdout,          \* what was written to standard output
  stderr,          \* what was written to standard error
  net              \* log of upstream calls: call, ok and err events

vars == <<argv, env, pc, targetPrincipal, projectId, projectNumber, clients,
          targetAudience, sourceClient, credentials, userinfo, provider,
          fetchArgs, error, exitCode, stdout, stderr, net>>

locals == <<targetPrincipal, projectId, projectNumber, clients, targetAudience,
            sourceClient, credentials, userinfo, provider, fetchArgs>>

NotCalled == "<not called>"
Failed == "<failed>"
NoError == [type |-> "none", cause |-> "none"]
NoClient == [isJWT |-> FALSE, email |-> NotCalled]
NoProvider == [type |-> "none", email |-> Undefined, client |-> NoClient]
NoData == [delegates |-> <<>>, audience |-> Undefined, includeEmail |-> FALSE]
NoOptions == [given |-> FALSE, includeEmail |-> FALSE]
NoArgs == [targetAudience |-> NotCalled, options |-> NoOptions]

Init ==
  /\ argv \in CommandLines
  /\ env \in Environments
  /\ pc = "start"
  /\ targetPrincipal = Undefined
  /\ projectId = Undefined
  /\ projectNumber = Undefined
  /\ clients = <<>>
  /\ targetAudience = Undefined
  /\ sourceClient = NoClient
  /\ credentials = NotCalled
  /\ userinfo = NotCalled
  /\ provider = NoProvider
  /\ fetchArgs = NoArgs
  /\ error = NoError
  /\ exitCode = 0
  /\ stdout = <<>>
  /\ stderr = <<>>
  /\ net = <<>>

\* ----------------------------------------------------------------- helpers

\* The object assert throws (src/index.ts:106-110).
EntityNotFound(entity) == [type |-> "illegal-state/entity-not-found", cause |-> entity]
\* The object createIdTokenProvider throws outside a managed runtime.
IllegalAccess == [type |-> "illegal-access/iap-local", cause |-> "Use impersonation"]
\* The object createIdTokenProvider throws when resolving the email throws.
ServiceAccountNotFound(cause) == [type |-> "service-account/not-found", cause |-> cause]
\* What a rejected upstream call, or a failed property access, throws.
UpstreamError(op) == [type |-> "upstream", cause |-> op]
TypeError(what) == [type |-> "TypeError", cause |-> what]

\* Mutant of assert: the test is of the empty string only (union === '').
assertEmptyOnly(union) == union # ""

\* assert(union, entity) returns (rather than throws) exactly when union is truthy.
assert(union) == Truthy(union)

\* process.env.PROJECT_ID || process.env.GOOGLE_CLOUD_PROJECT
ProjectIdEnvars == Or(env.PROJECT_ID, env.GOOGLE_CLOUD_PROJECT)

\* Mutant of isManagedRuntime: GOOGLE_CLOUD_PROJECT is read for GOOGLE_CLOUD_REGION.
isManagedRuntimeWrongVar == Truthy(Or(env.GOOGLE_CLOUD_PROJECT, env.GAE_SERVICE))

\* isManagedRuntime()
isManagedRuntime == Truthy(Or(env.GOOGLE_CLOUD_REGION, env.GAE_SERVICE))

\* Mutant of Find: when no client has the display name, the first client is
\* taken.
FindOrFirst(cs) ==
  LET hits == {i \in 1..Len(cs) : cs[i].displayName = AppEngineDisplayName}
  IN IF hits = {} THEN (IF Len(cs) > 0 THEN 1 ELSE 0)
     ELSE CHOOSE i \in hits : \A j \in hits : i <= j

\* Mutant of Find: the last client with the display name, not the first.
FindLast(cs) ==
  LET hits == {i \in 1..Len(cs) : cs[i].displayName = AppEngineDisplayName}
  IN IF hits = {} THEN 0 ELSE CHOOSE i \in hits : \A j \in hits : i >= j

\* clients.find(value => value.displayName === 'IAP-App-Engine-app'): the index
\* of the first such client, 0 when find returns undefined.
Find(cs) ==
  LET hits == {i \in 1..Len(cs) : cs[i].displayName = AppEngineDisplayName}
  IN IF hits = {} THEN 0 ELSE CHOOSE i \in hits : \A j \in hits : i <= j

\* One event of the upstream log.
Event(e, op, target, data) == [e |-> e, op |-> op, target |-> target, data |-> data]
CallEv(op, target, data) == Event("call", op, target, data)
OkEv(op) == Event("ok", op, <<>>, NoData)
ErrEv(op) == Event("err", op, <<>>, NoData)

\* The calls of the log that have not returned.
InFlight ==
  {i \in 1..Len(net) : net[i].e = "call" /\
     ~\E j \in (i+1)..Len(net) : net[j].e \in {"ok", "err"} /\ net[j].op = net[i].op}

\* A throw that nothing on the way up catches: main's promise is rejected.
Reject(err) ==
  /\ pc' = "rejected"
  /\ error' = err

\* An awaited upstream call rejects and nothing on the way up catches it.
\* Mutant of RejectUpstream: the failed operation is invoked again instead of
\* the failure being propagated.
RejectUpstreamRetry(op) ==
  /\ pc' = pc
  /\ error' = error
  /\ net' = Append(Append(net, ErrEv(op)), CallEv(op, <<>>, NoData))

RejectUpstream(op) ==
  /\ Reject(UpstreamError(op))
  /\ net' = Append(net, ErrEv(op))

\* ------------------------------------------------------------------- main

\* main(hideBin(process.argv)) up to its first await: the parser is built and
\* parseAsync is called.
MainStart ==
  /\ pc = "start"
  /\ pc' = "await_parse"
  /\ UNCHANGED <<argv, env, locals, error, exitCode, stdout, stderr, net>>

\* Mutant of ParseOutcome: the parser is not strict, an unknown option is
\* ignored.
ParseOutcomeLenient(cl) ==
  IF "--version" \in cl.flags THEN "version" ELSE "ok"

\* yargs with .version('1.0') and .strictOptions(true), left at its default
\* exitProcess(true): a version request prints the version and exits the
\* process with code 0; an unknown option prints the failure to standard error
\* and exits the process with code 1.  In both cases parseAsync never settles.
ParseOutcome(cl) ==
  IF "--version" \in cl.flags THEN "version"
  ELSE IF cl.flags # {} THEN "fail"
  ELSE "ok"

\* parseAsync settles (or yargs ends the process); then main calls init, which
\* runs to its first await: the project lookup.
ParseReturn ==
  /\ pc = "await_parse"
  /\ CASE ParseOutcome(argv) = "version" ->
            /\ stdout' = Append(stdout, <<"version", "1.0">>)
            /\ exitCode' = 0
            /\ pc' = "exited"
            /\ UNCHANGED <<locals, error, stderr, net>>
       [] ParseOutcome(argv) = "fail" ->
            /\ stderr' = Append(stderr, <<"yargs", "Unknown arguments">>)
            /\ exitCode' = 1
            /\ pc' = "exited"
            /\ UNCHANGED <<locals, error, stdout, net>>
       [] OTHER ->
            /\ targetPrincipal' = argv.targetPrincipal
            /\ IF ~assert(ProjectIdEnvars)
               THEN /\ Reject(EntityNotFound("projectId envars"))
                    /\ UNCHANGED <<projectId, net>>
               ELSE /\ projectId' = ProjectIdEnvars
                    /\ net' = Append(net, CallEv("getProject", <<"projects", ProjectIdEnvars>>, NoData))
                    /\ pc' = "await_getProject"
                    /\ UNCHANGED error
            /\ UNCHANGED <<projectNumber, clients, targetAudience, sourceClient,
                           credentials, userinfo, provider, fetchArgs,
                           exitCode, stdout, stderr>>
  /\ UNCHANGED <<argv, env>>

\* init resumes after projectsClient.getProject and runs to the IAP listing.
GetProjectReturn ==
  /\ pc = "await_getProject"
  /\ \/ /\ RejectUpstream("getProject")
        /\ UNCHANGED projectNumber
     \/ \E name \in ProjectNames :
          IF name = NoName
          THEN /\ Reject(TypeError("project.name.split"))
               /\ net' = Append(net, OkEv("getProject"))
               /\ UNCHANGED projectNumber
          ELSE IF ~assert(LastSegment(name))
          THEN /\ Reject(EntityNotFound("ProjectsClient.project.name.projectNumber"))
               /\ net' = Append(net, OkEv("getProject"))
               /\ UNCHANGED projectNumber
          ELSE /\ projectNumber' = LastSegment(name)
               /\ net' = Append(Append(net, OkEv("getProject")),
                                CallEv("listIdentityAwareProxyClients",
                                       <<"projects", projectId, "brands", LastSegment(name)>>, NoData))
               /\ pc' = "await_listClients"
               /\ UNCHANGED error
  /\ UNCHANGED <<argv, env, targetPrincipal, projectId, clients, targetAudience,
                 sourceClient, credentials, userinfo, provider, fetchArgs,
                 exitCode, stdout, stderr>>

\* init resumes after iapClient.listIdentityAwareProxyClients, finds the App
\* Engine client, takes the audience and enters createIdTokenProvider, which
\* runs to its first await: auth.getClient().
ListClientsReturn ==
  /\ pc = "await_listClients"
  /\ \/ /\ RejectUpstream("listIdentityAwareProxyClients")
        /\ UNCHANGED <<clients, targetAudience>>
     \/ \E cs \in ClientLists :
          /\ clients' = cs
          /\ IF Find(cs) = 0
             THEN /\ Reject(EntityNotFound("IdentityAwareProxyOAuthServiceClient.find"))
                  /\ net' = Append(net, OkEv("listIdentityAwareProxyClients"))
                  /\ UNCHANGED targetAudience
             ELSE IF cs[Find(cs)].name = NoName
             THEN /\ Reject(TypeError("appEngineClient.name.split"))
                  /\ net' = Append(net, OkEv("listIdentityAwareProxyClients"))
                  /\ UNCHANGED targetAudience
             ELSE /\ targetAudience' = LastSegment(cs[Find(cs)].name)
                  /\ net' = Append(Append(net, OkEv("listIdentityAwareProxyClients")),
                                   CallEv("auth.getClient", <<>>, NoData))
                  /\ pc' = "await_getClient"
                  /\ UNCHANGED error
  /\ UNCHANGED <<argv, env, targetPrincipal, projectId, projectNumber,
                 sourceClient, credentials, userinfo, provider, fetchArgs,
                 exitCode, stdout, stderr>>

\* -------------------------------------------------- createIdTokenProvider

\* The options main passes to provider.fetchIdToken: {includeEmail: true}.
MainOptions == [given |-> TRUE, includeEmail |-> TRUE]

\* new Impersonated({projectId, sourceClient, targetPrincipal, targetScopes})
Impersonated(principal, client) ==
  [type |-> "Impersonated", email |-> principal, client |-> client]

\* new DefaultEnhancedIdTokenProvider({sourceClient, client_email})
DefaultEnhancedIdTokenProvider(client, client_email) ==
  [type |-> "Default", email |-> client_email, client |-> client]

\* sourceClient instanceof JWT ? (sourceClient as JWT).email : undefined
JwtEmail(client) == IF client.isJWT THEN client.email ELSE Undefined

\* Mutant of StaticEmail: the JWT client's email is not consulted.
StaticEmailCredentialsOnly(client_email, client) == client_email

\* Mutant of StaticEmail: the JWT email is preferred to the credentials' email.
StaticEmailJwtFirst(client_email, client) == Or(JwtEmail(client), client_email)

\* credentials.client_email || (JWT email): the operands of the || chain that
\* are evaluated before fetchEmail is; fetchEmail runs only if this is falsy.
StaticEmail(client_email, client) == Or(client_email, JwtEmail(client))

\* Mutant of IncludeEmail: no default, options.includeEmail is read as it is
\* (absent, hence falsy, when the options are omitted).
IncludeEmailNoDefault(options) == options.includeEmail

\* options?.includeEmail ?? true
IncludeEmail(options) == IF options.given THEN options.includeEmail ELSE TRUE

\* DefaultEnhancedIdTokenProvider.ENDPOINT and the url fetchIdToken builds, as
\* the pieces the template literals concatenate.
ENDPOINT == "https://iamcredentials.googleapis.com"
GenerateIdTokenUrl(client_email) ==
  <<ENDPOINT, "/v1/", "projects/-/serviceAccounts/", TemplateStr(client_email), ":generateIdToken">>

\* The body fetchIdToken posts.
GenerateIdTokenData(audience, options) ==
  [delegates |-> <<>>, audience |-> audience, includeEmail |-> IncludeEmail(options)]

\* The audience main hands to provider.fetchIdToken: the second component of
\* the pair init returned.
AudienceArg == targetAudience

\* Mutant of ProviderBranch: the runtime is tested before the principal.
ProviderBranchRuntimeFirst(principal) ==
  IF ~isManagedRuntime THEN "adc/gcloud"
  ELSE IF Truthy(principal) THEN "impersonation"
  ELSE "managed"

\* The branch createIdTokenProvider takes once it has its source client: the
\* test of targetPrincipal comes first, the test of isManagedRuntime second.
ProviderBranch(principal) ==
  IF Truthy(principal) THEN "impersonation"
  ELSE IF ~isManagedRuntime THEN "adc/gcloud"
  ELSE "managed"

\* createIdTokenProvider resumes after auth.getClient(): the impersonation
\* branch returns to init and main, which calls Impersonated.fetchIdToken; the
\* local branch throws; the managed branch awaits auth.getCredentials().
GetClientReturn ==
  /\ pc = "await_getClient"
  /\ \/ /\ RejectUpstream("auth.getClient")
        /\ UNCHANGED <<sourceClient, provider, fetchArgs, exitCode, stdout>>
     \/ \E sc \in SourceClients :
          /\ sourceClient' = sc
          /\ stdout' = Append(stdout, <<"providerType", ProviderBranch(targetPrincipal)>>)
          /\ CASE ProviderBranch(targetPrincipal) = "impersonation" ->
                  /\ provider' = Impersonated(targetPrincipal, sc)
                  /\ fetchArgs' = [targetAudience |-> AudienceArg, options |-> MainOptions]
                  /\ net' = Append(Append(net, OkEv("auth.getClient")),
                                   CallEv("Impersonated.fetchIdToken", <<targetPrincipal>>,
                                          GenerateIdTokenData(AudienceArg, MainOptions)))
                  /\ pc' = "await_impersonatedFetch"
                  /\ UNCHANGED <<error, exitCode>>
               [] ProviderBranch(targetPrincipal) = "adc/gcloud" ->
                  /\ exitCode' = 1
                  /\ Reject(IllegalAccess)
                  /\ net' = Append(net, OkEv("auth.getClient"))
                  /\ UNCHANGED <<provider, fetchArgs>>
               [] OTHER ->
                  /\ net' = Append(Append(net, OkEv("auth.getClient")),
                                   CallEv("auth.getCredentials", <<>>, NoData))
                  /\ pc' = "await_getCredentials"
                  /\ UNCHANGED <<provider, fetchArgs, error, exitCode>>
  /\ UNCHANGED <<argv, env, targetPrincipal, projectId, projectNumber, clients,
                 targetAudience, credentials, userinfo, stderr>>

\* Mutant of ReturnDefaultProvider: fetchIdToken does not await
\* sourceClient.getAccessToken() and posts the request while it is in flight.
ReturnDefaultProviderNoAwait(client_email, log) ==
  /\ provider' = [type |-> "Default", email |-> client_email, client |-> sourceClient]
  /\ fetchArgs' = [targetAudience |-> targetAudience, options |-> [given |-> TRUE, includeEmail |-> TRUE]]
  /\ net' = Append(Append(log, CallEv("sourceClient.getAccessToken", <<>>, NoData)),
                   CallEv("generateIdToken",
                          <<"https://iamcredentials.googleapis.com", "/v1/",
                            "projects/-/serviceAccounts/", client_email, ":generateIdToken">>,
                          [delegates |-> <<>>, audience |-> targetAudience, includeEmail |-> TRUE]))
  /\ pc' = "await_generateIdToken"

\* createIdTokenProvider has its client_email: it constructs the default
\* provider and returns to init and main, which calls provider.fetchIdToken;
\* that runs to its first await, sourceClient.getAccessToken().
ReturnDefaultProvider(client_email, log) ==
  /\ provider' = DefaultEnhancedIdTokenProvider(sourceClient, client_email)
  /\ fetchArgs' = [targetAudience |-> AudienceArg, options |-> MainOptions]
  /\ net' = Append(log, CallEv("sourceClient.getAccessToken", <<>>, NoData))
  /\ pc' = "await_sourceAccessToken"

\* createIdTokenProvider resumes after auth.getCredentials() and evaluates the
\* || chain up to the call of fetchEmail, which awaits auth.getAccessToken().
GetCredentialsReturn ==
  /\ pc = "await_getCredentials"
  /\ \/ /\ RejectUpstream("auth.getCredentials")
        /\ UNCHANGED <<credentials, provider, fetchArgs>>
     \/ \E ce \in Emails :
          /\ credentials' = ce
          /\ IF Truthy(StaticEmail(ce, sourceClient))
             THEN /\ ReturnDefaultProvider(StaticEmail(ce, sourceClient),
                                           Append(net, OkEv("auth.getCredentials")))
                  /\ UNCHANGED error
             ELSE /\ net' = Append(Append(net, OkEv("auth.getCredentials")),
                                   CallEv("auth.getAccessToken", <<>>, NoData))
                  /\ pc' = "await_authAccessToken"
                  /\ UNCHANGED <<provider, fetchArgs, error>>
  /\ UNCHANGED <<argv, env, targetPrincipal, projectId, projectNumber, clients,
                 targetAudience, sourceClient, userinfo, exitCode, stdout, stderr>>

\* fetchEmail resumes after auth.getAccessToken(): a rejection here is outside
\* fetchEmail's try and inside createIdTokenProvider's, which rethrows it as
\* service-account/not-found; otherwise the userinfo request is awaited.
AuthAccessTokenReturn ==
  /\ pc = "await_authAccessToken"
  /\ \/ /\ Reject(ServiceAccountNotFound("auth.getAccessToken"))
        /\ net' = Append(net, ErrEv("auth.getAccessToken"))
     \/ /\ net' = Append(Append(net, OkEv("auth.getAccessToken")),
                         CallEv("userinfo", <<"https://www.googleapis.com/oauth2/v3/userinfo">>, NoData))
        /\ pc' = "await_userinfo"
        /\ UNCHANGED error
  /\ UNCHANGED <<argv, env, locals, exitCode, stdout, stderr>>

\* What fetchEmail returns for a userinfo result: res.data.email, or '' from
\* its catch block when the request failed.
fetchEmail(result) == IF result = Failed THEN "" ELSE result

\* fetchEmail resumes after auth.request(userinfo).  Its catch block logs a
\* failed request and returns ''; either way createIdTokenProvider constructs
\* the default provider with what fetchEmail returned.
UserinfoReturn ==
  /\ pc = "await_userinfo"
  /\ \E result \in Emails \cup {Failed} :
       /\ userinfo' = result
       /\ stderr' = IF result = Failed
                    THEN Append(stderr, <<"fetchEmailError", UpstreamError("userinfo")>>)
                    ELSE stderr
       /\ ReturnDefaultProvider(fetchEmail(result),
            Append(net, IF result = Failed THEN ErrEv("userinfo") ELSE OkEv("userinfo")))
  /\ UNCHANGED <<argv, env, targetPrincipal, projectId, projectNumber, clients,
                 targetAudience, sourceClient, credentials, error, exitCode, stdout>>

\* ------------------------------------------------------------ fetchIdToken

\* DefaultEnhancedIdTokenProvider.fetchIdToken resumes after
\* sourceClient.getAccessToken() and posts the generateIdToken request.
SourceAccessTokenReturn ==
  /\ pc = "await_sourceAccessToken"
  /\ \/ RejectUpstream("sourceClient.getAccessToken")
     \/ /\ net' = Append(Append(net, OkEv("sourceClient.getAccessToken")),
                         CallEv("generateIdToken", GenerateIdTokenUrl(provider.email),
                                GenerateIdTokenData(fetchArgs.targetAudience, fetchArgs.options)))
        /\ pc' = "await_generateIdToken"
        /\ UNCHANGED error
  /\ UNCHANGED <<argv, env, locals, exitCode, stdout, stderr>>

\* main resumes with the token and prints it: console.dir({token}).
PrintToken(op) ==
  \E token \in Tokens :
    /\ stdout' = Append(stdout, <<"token", token>>)
    /\ net' = Append(net, OkEv(op))
    /\ pc' = "resolved"
    /\ UNCHANGED error

\* fetchIdToken resumes after the POST and returns res.data.token to main.
GenerateIdTokenReturn ==
  /\ pc = "await_generateIdToken"
  /\ \/ /\ RejectUpstream("generateIdToken")
        /\ UNCHANGED stdout
     \/ PrintToken("generateIdToken")
  /\ UNCHANGED <<argv, env, locals, exitCode, stderr>>

\* main resumes after Impersonated.fetchIdToken.
ImpersonatedFetchReturn ==
  /\ pc = "await_impersonatedFetch"
  /\ \/ /\ RejectUpstream("Impersonated.fetchIdToken")
        /\ UNCHANGED stdout
     \/ PrintToken("Impersonated.fetchIdToken")
  /\ UNCHANGED <<argv, env, locals, exitCode, stderr>>

\* ------------------------------------------------- the top-level callbacks

\* .then(() => console.log('DONE'))
ThenDone ==
  /\ pc = "resolved"
  /\ stdout' = Append(stdout, <<"log", "DONE">>)
  /\ pc' = "done"
  /\ UNCHANGED <<argv, env, locals, error, exitCode, stderr, net>>

\* Mutant of CatchHandler: the error is printed and the exit code left alone.
CatchHandlerNoExitCode ==
  /\ pc = "rejected"
  /\ stderr' = Append(stderr, <<"ERROR", error>>)
  /\ pc' = "done"
  /\ UNCHANGED <<argv, env, locals, error, exitCode, stdout, net>>

\* .catch(error => { console.error(inspect({ERROR: error})); process.exitCode = 1 })
CatchHandler ==
  /\ pc = "rejected"
  /\ stderr' = Append(stderr, <<"ERROR", error>>)
  /\ exitCode' = 1
  /\ pc' = "done"
  /\ UNCHANGED <<argv, env, locals, error, stdout, net>>

Next ==
  \/ MainStart
  \/ ParseReturn
  \/ GetProjectReturn
  \/ ListClientsReturn
  \/ GetClientReturn
  \/ GetCredentialsReturn
  \/ AuthAccessTokenReturn
  \/ UserinfoReturn
  \/ SourceAccessTokenReturn
  \/ GenerateIdTokenReturn
  \/ ImpersonatedFetchReturn
  \/ ThenDone
  \/ CatchHandler

Spec == Init /\ [][Next]_vars

\* The run is over: main's promise settled and its callback ran, or the
\* argument parser ended the process.
Ended == pc \in {"done", "exited"}

\* ------------------------------------------------- observations of a run

\* An upstream operation was called / returned normally / failed.
Called(op) == \E i \in 1..Len(net) : net[i].e = "call" /\ net[i].op = op
Returned(op) == \E i \in 1..Len(net) : net[i].e = "ok" /\ net[i].op = op
FailedCall(op) == \E i \in 1..Len(net) : net[i].e = "err" /\ net[i].op = op

\* The operations that resolve the caller's identity, and those of a token fetch.
IdentityOps == {"auth.getCredentials", "auth.getAccessToken", "userinfo"}
TokenFetchOps == {"Impersonated.fetchIdToken", "sourceClient.getAccessToken", "generateIdToken"}

TokenPrinted == \E i \in 1..Len(stdout) : stdout[i][1] = "token"
\* The top-level handler printed the error main was rejected with.
HandlerPrinted == \E i \in 1..Len(stderr) : stderr[i][1] = "ERROR"
\* A failure was reported on standard error, by the handler or by the parser.
FailurePrinted == \E i \in 1..Len(stderr) : stderr[i][1] \in {"ERROR", "yargs"}

\* The command line parsed, and gave (or did not give) a principal.
Parsed == argv.flags = {}
PrincipalGiven == Parsed /\ argv.targetPrincipal \notin {Undefined, ""}
NoPrincipalGiven == Parsed /\ argv.targetPrincipal \in {Undefined, ""}
ManagedSignal == env.GOOGLE_CLOUD_REGION # Undefined \/ env.GAE_SERVICE # Undefined
ProjectUnset == env.PROJECT_ID = Undefined /\ env.GOOGLE_CLOUD_PROJECT = Undefined

\* ------------------------------------------------------------------ claims

\* C1: on the managed path (no target principal, a managed-runtime signal),
\* once the credentials, the JWT client and the userinfo endpoint have all
\* failed to give an email (the userinfo request failing included),
\* createIdTokenProvider has thrown service-account/not-found and has not
\* returned a default provider.
C1_NoEmailThrowsNotFound ==
  ( /\ NoPrincipalGiven /\ ManagedSignal
    /\ credentials \in {Undefined, ""}
    /\ (sourceClient.isJWT => sourceClient.email \in {Undefined, ""})
    /\ userinfo \in {Failed, Undefined, ""} )
  => (provider.type # "Default" /\ error.type = "service-account/not-found")

\* C2: every run in which some step raised an error ends with an error printed
\* to standard error, a non-zero exit code and no token printed.
C2_RaisedErrorEndsRun ==
  ( /\ Ended
    /\ \/ error # NoError
       \/ \E i \in 1..Len(net) : net[i].e = "err"
       \/ ~Parsed /\ "--version" \notin argv.flags )
  => (FailurePrinted /\ exitCode # 0 /\ ~TokenPrinted)

C5_PrincipalMeansImpersonated ==
  PrincipalGiven
  => ( /\ error.type # "illegal-access/iap-local"
       /\ provider.type \in {"none", "Impersonated"}
       /\ ~Called("auth.getCredentials")
       /\ (Returned("auth.getClient")
             => /\ provider.type = "Impersonated"
                /\ provider.email = argv.targetPrincipal) )

C5_Witness ==
  /\ PrincipalGiven /\ ~ManagedSignal
  /\ provider.type = "Impersonated"
  /\ Called("Impersonated.fetchIdToken")

\* A value that is an email: neither undefined nor empty.
NonEmpty(x) == x \notin {Undefined, "", NotCalled, Failed}

\* C6: with no target principal and a managed-runtime signal, the provider is
\* never the impersonated one, the email of the default provider is the first
\* non-empty of credentials.client_email, the JWT client's email and the
\* userinfo response, and the token request goes to
\* https://iamcredentials.googleapis.com/v1/projects/-/serviceAccounts/<email>:generateIdToken.
C6_DefaultEmailPriority ==
  (NoPrincipalGiven /\ ManagedSignal)
  => ( /\ provider.type \in {"none", "Default"}
       /\ provider.type = "Default" =>
            LET fromCredentials == credentials
                fromJwt == IF sourceClient.isJWT THEN sourceClient.email ELSE Undefined
                fromUserinfo == userinfo
            IN /\ NonEmpty(fromCredentials) => provider.email = fromCredentials
               /\ (~NonEmpty(fromCredentials) /\ NonEmpty(fromJwt))
                    => provider.email = fromJwt
               /\ (~NonEmpty(fromCredentials) /\ ~NonEmpty(fromJwt) /\ NonEmpty(fromUserinfo))
                    => provider.email = fromUserinfo
       /\ \A i \in 1..Len(net) :
            (net[i].e = "call" /\ net[i].op = "generateIdToken" /\ NonEmpty(provider.email))
            => net[i].target = <<"https://iamcredentials.googleapis.com", "/v1/",
                                 "projects/-/serviceAccounts/", provider.email,
                                 ":generateIdToken">> )

C6_Witness ==
  /\ NoPrincipalGiven /\ ManagedSignal
  /\ credentials = "" /\ sourceClient.isJWT /\ sourceClient.email = Undefined
  /\ userinfo = "run@sa"
  /\ provider.email = "run@sa"
  /\ Called("generateIdToken")

\* C7: whenever main has called provider.fetchIdToken, on either provider, the
\* audience it passed (and the audience of the request made with it) is the
\* last '/'-separated segment of the resource name of the first listed client
\* whose display name is "IAP-App-Engine-app".
C7_AudienceIsFirstAppEngineClient ==
  /\ fetchArgs # NoArgs =>
       \E k \in 1..Len(clients) :
         /\ clients[k].displayName = "IAP-App-Engine-app"
         /\ \A j \in 1..(k - 1) : clients[j].displayName # "IAP-App-Engine-app"
         /\ clients[k].name # <<>>
         /\ fetchArgs.targetAudience = clients[k].name[Len(clients[k].name)]
  /\ \A i \in 1..Len(net) :
       (net[i].e = "call" /\ net[i].op \in TokenFetchOps)
       => /\ fetchArgs # NoArgs
          /\ net[i].op # "sourceClient.getAccessToken"
               => net[i].data.audience = fetchArgs.targetAudience

C7_Witness ==
  /\ Len(clients) = 2
  /\ clients[1].displayName = "IAP-App-Engine-app"
  /\ clients[2].displayName = "IAP-App-Engine-app"
  /\ clients[1].name = <<"brands", "c1">>
  /\ clients[2].name = <<"c2">>
  /\ fetchArgs.targetAudience = "c1"
  /\ Called("generateIdToken")

\* C8: once the IAP listing has returned a list (the empty list included) with
\* no client whose display name is exactly "IAP-App-Engine-app", the run has
\* failed with illegal-state/entity-not-found, and createIdTokenProvider and
\* the token fetch are never invoked.
C8_NoAppEngineClientFails ==
  ( /\ Returned("listIdentityAwareProxyClients")
    /\ \A i \in 1..Len(clients) : clients[i].displayName # "IAP-App-Engine-app" )
  => ( /\ pc \in {"rejected", "done"}
       /\ error.type = "illegal-state/entity-not-found"
       /\ ~Called("auth.getClient")
       /\ \A op \in IdentityOps \cup TokenFetchOps : ~Called(op)
       /\ provider = NoProvider /\ fetchArgs = NoArgs
       /\ (Ended => exitCode # 0 /\ ~TokenPrinted) )

C8_Witness ==
  /\ Ended
  /\ Returned("listIdentityAwareProxyClients")
  /\ Len(clients) >= 1
  /\ \A i \in 1..Len(clients) : clients[i].displayName = "other"
  /\ error.type = "illegal-state/entity-not-found"

C10_CallsAreSequential ==
  \A i \in 1..Len(net) :
    net[i].e = "call" =>
      /\ \A j \in 1..(i - 1) :
           net[j].e = "call" =>
             \E k \in (j + 1)..(i - 1) : net[k].e \in {"ok", "err"} /\ net[k].op = net[j].op
      /\ net[i].op = "listIdentityAwareProxyClients" =>
           \E j \in 1..(i - 1) : net[j].e = "ok" /\ net[j].op = "getProject"
      /\ net[i].op = "auth.getClient" =>
           /\ \E j \in 1..(i - 1) : net[j].e = "ok" /\ net[j].op = "listIdentityAwareProxyClients"
           /\ targetAudience # Undefined
      /\ net[i].op \in TokenFetchOps =>
           /\ \E j \in 1..(i - 1) : net[j].e = "ok" /\ net[j].op = "listIdentityAwareProxyClients"
           /\ \E j \in 1..(i - 1) : net[j].e = "ok" /\ net[j].op = "auth.getClient"
           /\ targetAudience # Undefined
           /\ provider # NoProvider

C10_Witness ==
  /\ pc = "await_generateIdToken"
  /\ Returned("userinfo")
  /\ Len(net) = 15

C12_NoProjectNumberIsEntityNotFound ==
  (Returned("getProject") /\ projectNumber = Undefined)
  => ( /\ pc \in {"rejected", "done"}
       /\ error.type = "illegal-state/entity-not-found"
       /\ ~Called("listIdentityAwareProxyClients") )

\* C13: the userinfo endpoint is requested at most once in a run, and only
\* with no target principal, a managed-runtime signal, an empty
\* credentials.client_email and no email from a JWT source client; never on
\* the impersonation path and never on the illegal-access path.
C13_UserinfoOnlyAsFallback ==
  /\ Cardinality({i \in 1..Len(net) : net[i].e = "call" /\ net[i].op = "userinfo"}) <= 1
  /\ Called("userinfo")
       => ( /\ NoPrincipalGiven /\ ManagedSignal
            /\ credentials \in {Undefined, ""}
            /\ (sourceClient.isJWT => sourceClient.email \in {Undefined, ""})
            /\ Returned("auth.getCredentials") )
  /\ (PrincipalGiven \/ provider.type = "Impersonated"
        \/ error.type = "illegal-access/iap-local" \/ ~ManagedSignal)
       => (~Called("userinfo") /\ userinfo = NotCalled)

C13_Witness ==
  /\ Called("userinfo")
  /\ sourceClient.isJWT /\ sourceClient.email = Undefined
  /\ credentials = ""
  /\ Ended

\* ------------------------------- fetchIdToken called on its own (for C14)

\* The arguments a caller may give DefaultEnhancedIdTokenProvider.fetchIdToken:
\* any audience, and options omitted (NoOptions) or given with either flag.
FetchAudiences == {"", "c1", "c2"}
FetchOptions == {NoOptions} \cup [given : {TRUE}, includeEmail : BOOLEAN]

\* The providers the constructor can build.
DefaultProviders ==
  {DefaultEnhancedIdTokenProvider(c, e) : c \in SourceClients, e \in Emails}

\* A constructed default provider, fetchIdToken not yet called.
InitFetch ==
  /\ argv = [targetPrincipal |-> Undefined, flags |-> {}]
  /\ env = [PROJECT_ID |-> "p1", GOOGLE_CLOUD_PROJECT |-> Undefined,
            GOOGLE_CLOUD_REGION |-> Undefined, GAE_SERVICE |-> "default"]
  /\ pc = "fetch_start"
  /\ targetPrincipal = Undefined
  /\ projectId = "p1"
  /\ projectNumber = Undefined
  /\ clients = <<>>
  /\ targetAudience = Undefined
  /\ provider \in DefaultProviders
  /\ sourceClient = provider.client
  /\ credentials = NotCalled
  /\ userinfo = NotCalled
  /\ fetchArgs = NoArgs
  /\ error = NoError
  /\ exitCode = 0
  /\ stdout = <<>>
  /\ stderr = <<>>
  /\ net = <<>>

\* fetchIdToken(targetAudience, options?) is called and runs to its first
\* await, sourceClient.getAccessToken().
FetchIdTokenCall ==
  /\ pc = "fetch_start"
  /\ \E audience \in FetchAudiences, options \in FetchOptions :
       fetchArgs' = [targetAudience |-> audience, options |-> options]
  /\ net' = Append(net, CallEv("sourceClient.getAccessToken", <<>>, NoData))
  /\ pc' = "await_sourceAccessToken"
  /\ UNCHANGED <<argv, env, targetPrincipal, projectId, projectNumber, clients,
                 targetAudience, sourceClient, credentials, userinfo, provider,
                 error, exitCode, stdout, stderr>>

NextFetch ==
  \/ FetchIdTokenCall
  \/ SourceAccessTokenReturn
  \/ GenerateIdTokenReturn
  \/ ThenDone
  \/ CatchHandler

SpecFetch == InitFetch /\ [][NextFetch]_vars

\* What C14 says of every state of a call of fetchIdToken.
C14_State ==
  LET posts == {i \in 1..Len(net) : net[i].e = "call" /\ net[i].op = "generateIdToken"}
  IN /\ Cardinality(posts) <= 1
     /\ Returned("sourceClient.getAccessToken") => Cardinality(posts) = 1
     /\ \A i \in posts :
          /\ \E j \in 1..(i - 1) : net[j].e = "ok" /\ net[j].op = "sourceClient.getAccessToken"
          /\ net[i].data.audience = fetchArgs.targetAudience
          /\ net[i].data.delegates = <<>>
          /\ net[i].data.includeEmail =
               (IF fetchArgs.options = NoOptions THEN TRUE ELSE fetchArgs.options.includeEmail)
     /\ Returned("generateIdToken")
          => (error = NoError /\ stdout # <<>> /\ stdout[1] \in {<<"token", t>> : t \in Tokens})
     /\ FailedCall("sourceClient.getAccessToken")
          => (error = [type |-> "upstream", cause |-> "sourceClient.getAccessToken"]
              /\ posts = {} /\ ~TokenPrinted)
     /\ FailedCall("generateIdToken")
          => (error = [type |-> "upstream", cause |-> "generateIdToken"] /\ ~TokenPrinted)

\* C14: fetchIdToken first obtains an access token from the source client and
\* then posts exactly one request, with audience the targetAudience argument,
\* no delegates, and includeEmail as given in the options or true when the
\* options are omitted; it returns the token of the response, or fails when
\* either call fails; and no step of it changes the provider's client_email
\* or sourceClient.
C14_FetchIdTokenContract ==
  /\ []C14_State
  /\ [][provider' = provider /\ sourceClient' = sourceClient]_vars

C14_Witness ==
  /\ fetchArgs.options = NoOptions
  /\ fetchArgs.targetAudience = "c2"
  /\ Returned("generateIdToken")
  /\ \E i \in 1..Len(net) :
       net[i].op = "generateIdToken" /\ net[i].e = "call" /\ net[i].data.includeEmail = TRUE

\* The invocations of operation op in the run so far, as positions of net.
C15_Invocations(op) == {i \in 1..Len(net) : net[i].e = "call" /\ net[i].op = op}

\* C15: the program never retries. In a run every upstream operation (the
\* project lookup, the IAP client listing, the credentials lookup, the
\* userinfo request, the provider's fetchIdToken with the calls it makes, and
\* the client and access token lookups beside them) is invoked at most once,
\* and no failure of an operation is followed by another invocation of it.
C15_NoRetry ==
  \A i \in 1..Len(net) :
    /\ Cardinality(C15_Invocations(net[i].op)) <= 1
    /\ net[i].e = "err" => \A j \in (i + 1)..Len(net) : net[j].op # net[i].op

C15_Witness ==
  /\ pc = "done"
  /\ Len(net) = 4
  /\ net[3] = [e |-> "call", op |-> "listIdentityAwareProxyClients",
               target |-> net[3].target, data |-> net[3].data]
  /\ net[4].e = "err"
  /\ net[4].op = "listIdentityAwareProxyClients"
  /\ exitCode # 0

====
